---- MODULE Spec2Model ----
(***************************************************************************)
(* A model of gbtim_core.metadb: the peewee schema and connect_db (the     *)
(* store), the GUPPI metadata retrieval functions, Allocation.name and     *)
(* _mjd_to_unix.                                                           *)
(*                                                                         *)
(* Text is a sequence of one-character strings, so that formatting,        *)
(* regular-expression matching and int() are computed character by         *)
(* character.  Python floats that hold whole numbers are integers here.    *)
(***************************************************************************)
EXTENDS Integers, Sequences, FiniteSets, TLC

VARIABLES
    tables,       \* the tables that exist in the SQLite file
    rows,         \* table name -> the rows of the table, in rowid order
    proxy,        \* database_proxy: 0 uninitialised, n the n-th SqliteDatabase
    last,         \* the last store operation and what it returned
    file,         \* the GUPPI file handed to the retrieval functions
    filename_out, \* what get_guppi_filename_info(file) did
    header_out,   \* what get_guppi_header_info(file) did
    data_out,     \* what get_guppi_data_info(file) did
    alloc,        \* an Allocation instance (term, number)
    alloc_name,   \* what Allocation.name returned for it
    mjd,          \* the argument of _mjd_to_unix
    unix_out      \* what _mjd_to_unix(mjd) returned

vars == <<tables, rows, proxy, last, file, filename_out, header_out, data_out,
          alloc, alloc_name, mjd, unix_out>>

storeVars == <<tables, rows, proxy, last>>
extractVars == <<file, filename_out, header_out, data_out>>
identityVars == <<alloc, alloc_name>>
timeVars == <<mjd, unix_out>>
otherThanStore == <<extractVars, identityVars, timeVars>>

(***************************************************************************)
(* Bounds of the model.                                                    *)
(***************************************************************************)
MaxRows == 6          \* rows in the store, all tables together
MaxConnects == 2      \* calls of connect_db
MaxSamples == 2       \* rows of the per-sample table of a file
MaxMJD == 58849       \* the largest whole-day MJD drawn

(***************************************************************************)
(* Text helpers.                                                           *)
(***************************************************************************)
Digits == <<"0", "1", "2", "3", "4", "5", "6", "7", "8", "9">>

IsDigit(c) == \E i \in 1..10 : Digits[i] = c

DigitValue(c) == (CHOOSE i \in 1..10 : Digits[i] = c) - 1

AllDigits(s) == \A i \in 1..Len(s) : IsDigit(s[i])

\* s[a..b], empty when b < a
Slice(s, a, b) == [i \in 1..(b - a + 1) |-> s[a + i - 1]]

\* whether literal text lit stands in s at position p
LitAt(s, p, lit) ==
    /\ p >= 1
    /\ p + Len(lit) - 1 <= Len(s)
    /\ \A i \in 1..Len(lit) : s[p + i - 1] = lit[i]

\* whether s[p..p+n-1] are n digits ([0-9]{n})
DigitsAt(s, p, n) ==
    /\ p >= 1
    /\ p + n - 1 <= Len(s)
    /\ \A i \in 0..(n - 1) : IsDigit(s[p + i])

\* the decimal digits of text s as a number (s all digits; "" gives 0)
RECURSIVE DecimalValue(_)
DecimalValue(s) ==
    IF Len(s) = 0 THEN 0
    ELSE DecimalValue(Slice(s, 1, Len(s) - 1)) * 10 + DigitValue(s[Len(s)])

\* the decimal digits of n >= 0, without padding
RECURSIVE DecimalText(_)
DecimalText(n) ==
    IF n < 10 THEN <<Digits[n + 1]>>
    ELSE Append(DecimalText(n \div 10), Digits[(n % 10) + 1])

\* the end of the longest run of digits of s that starts at p (p - 1 if none)
RECURSIVE DigitRunEnd(_, _)
DigitRunEnd(s, p) ==
    IF p <= Len(s) /\ IsDigit(s[p]) THEN DigitRunEnd(s, p + 1) ELSE p - 1

SetMax(S) == CHOOSE x \in S : \A y \in S : y <= x
SetMin(S) == CHOOSE x \in S : \A y \in S : x <= y

NoMatch == [matched |-> FALSE, groups |-> <<>>]

\* int(text) of a regular-expression group: digits only, "" raises ValueError
int(s) == [raised |-> Len(s) = 0, value |-> DecimalValue(s)]

\* str.strip(): surrounding blanks removed
strip(s) ==
    LET inked == {i \in 1..Len(s) : s[i] # " "} IN
    IF inked = {} THEN <<>> ELSE Slice(s, SetMin(inked), SetMax(inked))

(***************************************************************************)
(* The store: the peewee models as tables of an SQLite file.               *)
(***************************************************************************)
NULL == 0

\* the models handed to create_tables
AllTables == {"File", "FileCopy", "Target", "Allocation", "Session",
              "ScanSet", "Scan", "GuppiFile"}

\* sample column values
Terms == {<<"1", "0", "B">>}
Numbers == {5, 36}

NoRows == [t \in AllTables |-> <<>>]

TotalRows(r) ==
    Len(r["File"]) + Len(r["FileCopy"]) + Len(r["Target"])
    + Len(r["Allocation"]) + Len(r["Session"]) + Len(r["ScanSet"])
    + Len(r["Scan"]) + Len(r["GuppiFile"])

Ids(t) == 1..Len(rows[t])

NoResult == [op |-> "none", arg |-> 0, status |-> "none", value |-> 0]

\* db.create_tables(models, safe): CREATE TABLE [IF NOT EXISTS] per model.
\* Returns the tables and rows of the file afterwards, and whether it raised.
create_tables_unsafe(tabs, rws, models) ==
    IF models \cap tabs # {}
    THEN [tables |-> tabs, rows |-> rws, status |-> "OperationalError"]
    ELSE [tables |-> tabs \cup models, rows |-> rws, status |-> "ok"]

create_tables(tabs, rws, models) ==
    [tables |-> tabs \cup models, rows |-> rws, status |-> "ok"]

\* connect_db(filename): a new SqliteDatabase bound to the proxy, connected,
\* then create_tables(..., safe=True).
connect_db ==
    /\ proxy < MaxConnects
    /\ LET r == create_tables(tables, rows, AllTables) IN
        /\ proxy' = proxy + 1
        /\ tables' = r.tables
        /\ rows' = r.rows
        /\ last' = [op |-> "connect_db", arg |-> 0, status |-> r.status,
                    value |-> 0]
    /\ UNCHANGED otherThanStore

\* Model.create(**fields): INSERT of one row, its id the next rowid.  The
\* schema declares no unique index, so the only checks are that the database
\* is bound and the table exists; the NOT NULL columns are always given, and
\* a foreign key is given as an instance, a row that exists.
CanInsert(t) ==
    /\ proxy > 0
    /\ t \in tables
    /\ TotalRows(rows) < MaxRows

Inserted(t, row) ==
    /\ rows' = [rows EXCEPT ![t] = Append(@, row)]
    /\ last' = [op |-> "create", arg |-> 0, status |-> "ok",
                value |-> Len(rows[t]) + 1]
    /\ UNCHANGED <<tables, proxy>>
    /\ UNCHANGED otherThanStore

\* File has no column but its id
CreateFile ==
    /\ CanInsert("File")
    /\ Inserted("File", [id |-> Len(rows["File"]) + 1])

CreateFileCopy ==
    /\ CanInsert("FileCopy")
    /\ \E f \in Ids("File") :
        Inserted("FileCopy", [file |-> f, path |-> <<"/", "d">>,
                              host |-> <<"h">>, corrupt |-> FALSE,
                              hash |-> NULL])

CreateTarget ==
    /\ CanInsert("Target")
    /\ Inserted("Target", [name |-> <<"3", "C", "4", "8">>, ra |-> NULL,
                           dec |-> NULL])

CreateAllocation ==
    /\ CanInsert("Allocation")
    /\ \E t \in Terms, n \in Numbers :
        Inserted("Allocation", [term |-> t, number |-> n])

CreateSession ==
    /\ CanInsert("Session")
    /\ \E a \in Ids("Allocation"), n \in Numbers :
        Inserted("Session", [allocation |-> a, number |-> n])

CreateScanSet ==
    /\ CanInsert("ScanSet")
    /\ Inserted("ScanSet", [kind |-> <<"m", "a", "p">>])

\* the nullable columns but scanset (target, mode, cadence, the bounding box
\* and the times) are left NULL, as by a header-less creation
CreateScan ==
    /\ CanInsert("Scan")
    /\ \E s \in Ids("Session"), ss \in {NULL} \cup Ids("ScanSet"),
          n \in Numbers :
        Inserted("Scan", [session |-> s, target |-> NULL, scanset |-> ss,
                          number |-> n])

CreateGuppiFile ==
    /\ CanInsert("GuppiFile")
    /\ \E f \in Ids("File"), s \in Ids("Scan"), n \in Numbers :
        Inserted("GuppiFile", [file |-> f, scan |-> s, number |-> n])

\* ScanSet.scans: the Scan rows whose scanset is ss (the related_name backref)
ScanSet_scans(ss) == {i \in Ids("Scan") : rows["Scan"][i].scanset = ss}

\* ScanSet.session: self.scans[0].session.  The backref query has no
\* ORDER BY, so which scan comes first is whichever the database returns.
ScanSet_session(ss) ==
    /\ proxy > 0
    /\ ss \in Ids("ScanSet")
    /\ IF ScanSet_scans(ss) = {}
       THEN last' = [op |-> "ScanSet.session", arg |-> ss,
                     status |-> "IndexError", value |-> 0]
       ELSE \E i \in ScanSet_scans(ss) :
                last' = [op |-> "ScanSet.session", arg |-> ss,
                         status |-> "ok", value |-> rows["Scan"][i].session]
    /\ UNCHANGED <<tables, rows, proxy>>
    /\ UNCHANGED otherThanStore

(***************************************************************************)
(* Meta data retrieval functions.                                          *)
(***************************************************************************)
NoInfo == [status |-> "none", info |-> <<>>, reads |-> {}]

Raised(error, reads) == [status |-> error, info |-> <<>>, reads |-> reads]

Returned(info, reads) == [status |-> "ok", info |-> info, reads |-> reads]

\* path.basename(filename): what follows the last "/"
basename(p) ==
    LET slashes == {i \in 1..Len(p) : p[i] = "/"} IN
    IF slashes = {} THEN p ELSE Slice(p, SetMax(slashes) + 1, Len(p))

\* "." of a regular expression: any character but a newline
AnyChar(c) == c # "\n"

\* whether "_([0-9]{4})_([0-9]{4}).fits" stands in s at position t
filename_tail_at(s, t) ==
    /\ LitAt(s, t, <<"_">>)
    /\ DigitsAt(s, t + 1, 4)
    /\ LitAt(s, t + 5, <<"_">>)
    /\ DigitsAt(s, t + 6, 4)
    /\ t + 10 <= Len(s)
    /\ AnyChar(s[t + 10])
    /\ LitAt(s, t + 11, <<"f", "i", "t", "s">>)

\* re.match("guppi_[0-9]{5}_.*_([0-9]{4})_([0-9]{4}).fits", s): anchored at
\* the start only; ".*" is greedy, so of the places where the tail can start
\* the last one is taken.
filename_re_match(s) ==
    LET spans == {k \in 0..Len(s) :
                    /\ \A i \in 13..(12 + k) : i <= Len(s) /\ AnyChar(s[i])
                    /\ filename_tail_at(s, 13 + k)}
    IN
    IF /\ LitAt(s, 1, <<"g", "u", "p", "p", "i", "_">>)
       /\ DigitsAt(s, 7, 5)
       /\ LitAt(s, 12, <<"_">>)
       /\ spans # {}
    THEN LET t == 13 + SetMax(spans) IN
         [matched |-> TRUE,
          groups |-> <<Slice(s, t + 1, t + 4), Slice(s, t + 6, t + 9)>>]
    ELSE NoMatch

\* get_guppi_filename_info(filename); match.group on a failed match (None)
\* raises AttributeError.
get_guppi_filename_info(filename) ==
    LET match == filename_re_match(basename(filename)) IN
    IF ~match.matched THEN Raised("AttributeError", {})
    ELSE LET scan == int(match.groups[1]).value
             number == int(match.groups[2]).value
         IN
         Returned(("scan.number" :> scan) @@ ("file.number" :> number), {})

\* re.match("AGBT([0-9]{2}[ABC])_([0-9]*)_([0-9]*)", s)
session_id_re_match(s) ==
    LET e2 == DigitRunEnd(s, 9)
        e3 == DigitRunEnd(s, e2 + 2)
    IN
    IF /\ LitAt(s, 1, <<"A", "G", "B", "T">>)
       /\ DigitsAt(s, 5, 2)
       /\ 7 <= Len(s)
       /\ s[7] \in {"A", "B", "C"}
       /\ LitAt(s, 8, <<"_">>)
       /\ LitAt(s, e2 + 1, <<"_">>)
    THEN [matched |-> TRUE,
          groups |-> <<Slice(s, 5, 7), Slice(s, 9, e2), Slice(s, e2 + 2, e3)>>]
    ELSE NoMatch

\* what get_guppi_header_info touches of the opened file: the primary header
\* and, for data_len = len(hdulist[1].data), the table of HDU 1
header_info_reads == {"hdu0.header", "hdu1.data"}

\* get_guppi_header_info(filename), f the file the name opens
get_guppi_header_info(f) ==
    LET reads == header_info_reads
        mode == strip(f.OBS_MODE)
        match == session_id_re_match(strip(f.PROJID))
    IN
    IF ~match.matched THEN Raised("AttributeError", reads)
    ELSE LET number == int(match.groups[2])
             session == int(match.groups[3])
         IN
         IF number.raised \/ session.raised THEN Raised("ValueError", reads)
         ELSE Returned(("scan.mode" :> mode)
                       @@ ("allocation.term" :> match.groups[1])
                       @@ ("allocation.number" :> number.value)
                       @@ ("session.number" :> session.value)
                       @@ ("target.name" :> strip(f.SRC_NAME)), reads)

(***************************************************************************)
(* _mjd_to_unix, with datetime's calendar arithmetic.  A datetime is its   *)
(* proleptic Gregorian ordinal and its second of the day; a timedelta is   *)
(* days and seconds, as datetime.timedelta stores it.                      *)
(***************************************************************************)
SecondsPerDay == 86400

is_leap(y) == y % 4 = 0 /\ (y % 100 # 0 \/ y % 400 = 0)

days_before_year(y) ==
    (y - 1) * 365 + (y - 1) \div 4 - (y - 1) \div 100 + (y - 1) \div 400

days_in_month(y, m) ==
    IF m = 2 THEN (IF is_leap(y) THEN 29 ELSE 28)
    ELSE IF m \in {4, 6, 9, 11} THEN 30 ELSE 31

RECURSIVE days_before_month(_, _)
days_before_month(y, m) ==
    IF m = 1 THEN 0
    ELSE days_before_month(y, m - 1) + days_in_month(y, m - 1)

\* datetime.datetime(y, m, d, 0, 0, 0, 0)
datetime(y, m, d) ==
    [ordinal |-> days_before_year(y) + days_before_month(y, m) + d,
     second |-> 0]

mjd_epoch_day_early == datetime(1858, 11, 16)

\* mjd_epoch = datetime.datetime(1858, 11, 17, 0, 0, 0, 0)
mjd_epoch == datetime(1858, 11, 17)

\* datetime.datetime.utcfromtimestamp(0)
unix_epoch == datetime(1970, 1, 1)

\* datetime.timedelta(days)
timedelta(days) == [days |-> days, seconds |-> 0]

\* datetime + timedelta
datetime_add(dt, td) ==
    LET sec == dt.second + td.seconds IN
    [ordinal |-> dt.ordinal + td.days + sec \div SecondsPerDay,
     second |-> sec % SecondsPerDay]

\* datetime - datetime, a normalised timedelta
datetime_sub(a, b) ==
    LET sec == a.second - b.second IN
    [days |-> a.ordinal - b.ordinal + sec \div SecondsPerDay,
     seconds |-> sec % SecondsPerDay]

\* _mjd_to_unix(mjd): the timedelta unix_delta whose total_seconds() is
\* returned.  The seconds themselves leave the range of TLC's
\* integers for early dates, so the result is kept as days and seconds.
_mjd_to_unix(m) ==
    LET date == datetime_add(mjd_epoch, timedelta(m)) IN
    datetime_sub(date, unix_epoch)

\* timedelta.total_seconds()
total_seconds(td) == td.days * SecondsPerDay + td.seconds

(***************************************************************************)
(* get_guppi_data_info.                                                    *)
(***************************************************************************)
Column(data, name) == {data[i][name] : i \in 1..Len(data)}

\* the loop over ('ra', 'RA_SUB'), ... : min and max of each column
bounding_boxes(data) ==
    ("ra_min" :> SetMin(Column(data, "RA_SUB")))
    @@ ("ra_max" :> SetMax(Column(data, "RA_SUB")))
    @@ ("dec_min" :> SetMin(Column(data, "DEC_SUB")))
    @@ ("dec_max" :> SetMax(Column(data, "DEC_SUB")))
    @@ ("az_min" :> SetMin(Column(data, "TEL_AZ")))
    @@ ("az_max" :> SetMax(Column(data, "TEL_AZ")))
    @@ ("zen_min" :> SetMin(Column(data, "TEL_ZEN")))
    @@ ("zen_max" :> SetMax(Column(data, "TEL_ZEN")))

\* zen_min, zen_max popped; el_max = 90 - zen_min, el_min = 90 - zen_max
zenith_to_elevation_same_end(info) ==
    [k \in DOMAIN info \ {"zen_min", "zen_max"} |-> info[k]]
    @@ ("el_max" :> 90 - info["zen_max"])
    @@ ("el_min" :> 90 - info["zen_min"])

zenith_to_elevation(info) ==
    [k \in DOMAIN info \ {"zen_min", "zen_max"} |-> info[k]]
    @@ ("el_max" :> 90 - info["zen_min"])
    @@ ("el_min" :> 90 - info["zen_max"])

\* get_guppi_data_info(filename), f the file the name opens; data[0] of an
\* empty table raises IndexError.
get_guppi_data_info(f) ==
    LET reads == {"hdu0.header", "hdu1.header", "hdu1.data"}
        data == f.data
    IN
    IF Len(data) = 0 THEN Raised("IndexError", reads)
    ELSE LET first == data[1]
             final == data[Len(data)]
             unix_offset == total_seconds(_mjd_to_unix(f.STT_IMJD))
             start_time == first.OFFS_SUB - first.TSUBINT \div 2
                           + f.STT_SMJD + f.STT_OFFS + unix_offset
             end_time == final.OFFS_SUB + final.TSUBINT \div 2
                         + f.STT_SMJD + f.STT_OFFS + unix_offset
         IN
         Returned(zenith_to_elevation(
                      ("scan.cadence" :> f.TBIN)
                      @@ ("scan.start_time" :> start_time)
                      @@ ("scan.end_time" :> end_time)
                      @@ bounding_boxes(data)), reads)

(***************************************************************************)
(* Allocation.name.                                                        *)
(***************************************************************************)
\* "%03d" % number, number >= 0: decimal, zero-padded on the left to width 3
format_03d_unpadded(number) == DecimalText(number)

format_03d(number) ==
    LET text == DecimalText(number) IN
    [i \in 1..(3 - Len(text)) |-> "0"] \o text

\* 'GBT' + self.term + deliminator + "%03d" % self.number
Allocation_name(a) ==
    <<"G", "B", "T">> \o a.term \o <<"-">> \o format_03d(a.number)

(***************************************************************************)
(* The inputs drawn.                                                       *)
(***************************************************************************)
guppi == <<"g", "u", "p", "p", "i">>
us == <<"_">>
d55555 == <<"5", "5", "5", "5", "5">>
d0001 == <<"0", "0", "0", "1">>
d0002 == <<"0", "0", "0", "2">>
d0012 == <<"0", "0", "1", "2">>
d0340 == <<"0", "3", "4", "0">>
dotfits == <<".", "f", "i", "t", "s">>
stem == guppi \o us \o d55555 \o us \o <<"3", "C", "4", "8">> \o us

Filenames == {
    stem \o d0001 \o us \o d0002 \o dotfits,
    <<"/", "d", "/">> \o stem \o d0012 \o us \o d0340 \o dotfits,
    <<"d", ".", "x", "/">> \o stem \o d0001 \o us \o d0002 \o dotfits,
    guppi \o us \o d55555 \o us \o us \o d0012 \o us \o d0001 \o dotfits,
    stem \o d0001 \o us \o d0002 \o dotfits \o us \o d0012 \o us \o d0340
        \o dotfits,
    stem \o d0001 \o us \o d0002 \o <<"x", "f", "i", "t", "s">>,
    stem \o d0001 \o us \o d0002 \o dotfits \o <<".", "b", "a", "k">>,
    stem \o d0001 \o us \o d0002 \o <<".", "r", "a", "w">>,
    <<"v", "e", "g", "a", "s">> \o us \o d55555 \o us \o <<"a">> \o us
        \o d0001 \o us \o d0002 \o dotfits,
    guppi \o us \o <<"5", "5", "5", "5">> \o us \o <<"a">> \o us
        \o d0001 \o us \o d0002 \o dotfits,
    stem \o <<"0", "0", "1">> \o us \o d0002 \o dotfits,
    guppi \o us \o d55555 \o us \o <<"a", "\n", "b">> \o us
        \o d0001 \o us \o d0002 \o dotfits,
    <<"n", "o", "t", "e", "s", ".", "t", "x", "t">>
}

agbt == <<"A", "G", "B", "T">>
id10B_036_05 == <<"1", "0", "B", "_", "0", "3", "6", "_", "0", "5">>

ProjectIds == {
    agbt \o id10B_036_05,
    <<" ">> \o agbt \o id10B_036_05 \o <<" ", " ">>,
    agbt \o <<"1", "4", "A", "_", "6", "0", "5", "_", "1", "2">>,
    agbt \o id10B_036_05 \o <<"x">>,
    id10B_036_05,
    agbt \o <<"1", "0", "B", "_", "_", "0", "5">>,
    agbt \o <<"1", "0", "B", "_", "0", "3", "6", "_">>,
    agbt \o <<"1", "0", "D", "_", "0", "3", "6", "_", "0", "5">>,
    <<"G", "B", "T", "1", "0", "B", "-", "0", "3", "6">>
}

\* rows of the per-sample table (seconds and degrees, whole numbers)
Samples == {
    [OFFS_SUB |-> 1, TSUBINT |-> 2, RA_SUB |-> 150, DEC_SUB |-> 2,
     TEL_AZ |-> 100, TEL_ZEN |-> 10],
    [OFFS_SUB |-> 3, TSUBINT |-> 2, RA_SUB |-> 151, DEC_SUB |-> 1,
     TEL_AZ |-> 200, TEL_ZEN |-> 80],
    [OFFS_SUB |-> 5, TSUBINT |-> 2, RA_SUB |-> 149, DEC_SUB |-> 3,
     TEL_AZ |-> 50, TEL_ZEN |-> 45]
}

Tables == UNION {[1..n -> Samples] : n \in 0..MaxSamples}

\* whole-day start dates of files (2010-01-01 and 2011-02-11)
StartDays == {55197, 55603}

\* the files: readable, with a primary header and the table of HDU 1
Files ==
    [path : Filenames,
     OBS_MODE : {<<"S", "E", "A", "R", "C", "H", " ">>},
     PROJID : ProjectIds,
     SRC_NAME : {<<"3", "C", "4", "8", " ", " ">>},
     TBIN : {1},
     STT_IMJD : StartDays,
     STT_SMJD : {3600},
     STT_OFFS : {0},
     data : Tables]

\* Allocation instances: term two digits and a letter
AllocTerms == {<<"1", "0", "B">>, <<"0", "9", "A">>, <<"1", "4", "C">>}
AllocNumbers == (0..999) \cup {1000, 4321}

(***************************************************************************)
(* The specifications.                                                     *)
(***************************************************************************)
\* the module freshly imported and an empty SQLite file
StoreInit ==
    /\ tables = {}
    /\ rows = NoRows
    /\ proxy = 0
    /\ last = NoResult
    /\ file = 0 /\ filename_out = 0 /\ header_out = 0 /\ data_out = 0
    /\ alloc = 0 /\ alloc_name = 0
    /\ mjd = 0 /\ unix_out = 0

ReadScanSetSession == \E ss \in Ids("ScanSet") : ScanSet_session(ss)

StoreNext ==
    \/ connect_db
    \/ CreateFile
    \/ CreateFileCopy
    \/ CreateTarget
    \/ CreateAllocation
    \/ CreateSession
    \/ CreateScanSet
    \/ CreateScan
    \/ CreateGuppiFile
    \/ ReadScanSetSession

\* the store: connect_db, row creation and ScanSet.session
SpecStore == StoreInit /\ [][StoreNext]_vars

ExtractInit ==
    /\ file \in Files
    /\ filename_out = NoInfo
    /\ header_out = NoInfo
    /\ data_out = NoInfo
    /\ tables = {} /\ rows = NoRows /\ proxy = 0 /\ last = NoResult
    /\ alloc = 0 /\ alloc_name = 0
    /\ mjd = 0 /\ unix_out = 0

CallFilenameInfo ==
    /\ filename_out.status = "none"
    /\ filename_out' = get_guppi_filename_info(file.path)
    /\ UNCHANGED <<file, header_out, data_out>>
    /\ UNCHANGED <<storeVars, identityVars, timeVars>>

CallHeaderInfo ==
    /\ header_out.status = "none"
    /\ header_out' = get_guppi_header_info(file)
    /\ UNCHANGED <<file, filename_out, data_out>>
    /\ UNCHANGED <<storeVars, identityVars, timeVars>>

CallDataInfo ==
    /\ data_out.status = "none"
    /\ data_out' = get_guppi_data_info(file)
    /\ UNCHANGED <<file, filename_out, header_out>>
    /\ UNCHANGED <<storeVars, identityVars, timeVars>>

ExtractNext ==
    \/ CallFilenameInfo
    \/ CallHeaderInfo
    \/ CallDataInfo

\* the three retrieval functions applied to one file
SpecExtract == ExtractInit /\ [][ExtractNext]_vars

IdentityInit ==
    /\ alloc \in [term : AllocTerms, number : AllocNumbers]
    /\ alloc_name = <<>>
    /\ tables = {} /\ rows = NoRows /\ proxy = 0 /\ last = NoResult
    /\ file = 0 /\ filename_out = 0 /\ header_out = 0 /\ data_out = 0
    /\ mjd = 0 /\ unix_out = 0

ReadAllocationName ==
    /\ alloc_name = <<>>
    /\ alloc_name' = Allocation_name(alloc)
    /\ UNCHANGED alloc
    /\ UNCHANGED <<storeVars, extractVars, timeVars>>

IdentityNext == ReadAllocationName

\* Allocation.name read of one Allocation
SpecIdentity == IdentityInit /\ [][IdentityNext]_vars

NoTime == [status |-> "none", days |-> 0, seconds |-> 0]

TimeInit ==
    /\ mjd \in 0..MaxMJD
    /\ unix_out = NoTime
    /\ tables = {} /\ rows = NoRows /\ proxy = 0 /\ last = NoResult
    /\ file = 0 /\ filename_out = 0 /\ header_out = 0 /\ data_out = 0
    /\ alloc = 0 /\ alloc_name = 0

Call_mjd_to_unix ==
    /\ unix_out.status = "none"
    /\ LET td == _mjd_to_unix(mjd) IN
        unix_out' = [status |-> "ok", days |-> td.days, seconds |-> td.seconds]
    /\ UNCHANGED mjd
    /\ UNCHANGED <<storeVars, extractVars, identityVars>>

TimeNext == Call_mjd_to_unix

\* _mjd_to_unix applied to one whole-day MJD
SpecTime == TimeInit /\ [][TimeNext]_vars

(***************************************************************************)
(* The claims.                                                             *)
(***************************************************************************)

\* The data-file naming pattern as the specification words it,
\* <prefix>_<5 digits>_<freeform>_<4-digit scan>_<4-digit file>.<ext>, over
\* the whole name: u the first "_", e the last ".", t the "_" before the scan.
NamePatternAt(s, u, e) ==
    LET t == e - 10 IN
    /\ u > 1
    /\ e < Len(s)
    /\ DigitsAt(s, u + 1, 5)
    /\ LitAt(s, u + 6, <<"_">>)
    /\ t >= u + 6
    /\ LitAt(s, t, <<"_">>)
    /\ DigitsAt(s, t + 1, 4)
    /\ LitAt(s, t + 5, <<"_">>)
    /\ DigitsAt(s, t + 6, 4)

FirstOf(s, c) == SetMin({i \in 1..Len(s) : s[i] = c} \cup {Len(s) + 1})
LastOf(s, c) == SetMax({i \in 1..Len(s) : s[i] = c} \cup {0})

NamePattern(s) == NamePatternAt(s, FirstOf(s, "_"), LastOf(s, "."))
EncodedScan(s) == DecimalValue(Slice(s, LastOf(s, ".") - 9, LastOf(s, ".") - 6))
EncodedFile(s) == DecimalValue(Slice(s, LastOf(s, ".") - 4, LastOf(s, ".") - 1))

\* C1: filename-only extraction succeeds exactly on the names that match the
\* data-file pattern, returning the two encoded numbers, and fails with
\* MalformedFilename on every other string.
C1_FilenameContract ==
    filename_out.status # "none" =>
        LET name == basename(file.path) IN
        IF NamePattern(name)
        THEN /\ filename_out.status = "ok"
             /\ filename_out.info["scan.number"] = EncodedScan(name)
             /\ filename_out.info["file.number"] = EncodedFile(name)
        ELSE filename_out.status = "MalformedFilename"

\* The project id as the specification words it,
\* <2-digit-year><half-letter>_<allocation-number>_<session-number>.
ProjectIdPattern(s) ==
    LET e2 == DigitRunEnd(s, 5) IN
    /\ DigitsAt(s, 1, 2)
    /\ 3 <= Len(s)
    /\ s[3] \in {"A", "B", "C"}
    /\ LitAt(s, 4, <<"_">>)
    /\ e2 >= 5
    /\ LitAt(s, e2 + 1, <<"_">>)
    /\ e2 + 2 <= Len(s)
    /\ DigitRunEnd(s, e2 + 2) = Len(s)

\* C2: header-only extraction of a project id of the form "10B_036_05" yields
\* its term, allocation number and session number, and fails with
\* MalformedProjectId on every other project id.
C2_ProjectIdContract ==
    header_out.status # "none" =>
        LET id == strip(file.PROJID)
            e2 == DigitRunEnd(id, 5)
        IN
        IF ProjectIdPattern(id)
        THEN /\ header_out.status = "ok"
             /\ header_out.info["allocation.term"] = Slice(id, 1, 3)
             /\ header_out.info["allocation.number"]
                    = DecimalValue(Slice(id, 5, e2))
             /\ header_out.info["session.number"]
                    = DecimalValue(Slice(id, e2 + 2, Len(id)))
        ELSE header_out.status = "MalformedProjectId"

\* C3: in every reachable state of the store no two Allocation rows share
\* (term, number), no two Session rows (allocation, number), no two Scan rows
\* (session, number) and no two GuppiFile rows (scan, number).
C3_UniqueKeys ==
    /\ \A i, j \in Ids("Allocation") :
        LET a == rows["Allocation"][i]
            b == rows["Allocation"][j]
        IN i # j => <<a.term, a.number>> # <<b.term, b.number>>
    /\ \A i, j \in Ids("Session") :
        LET a == rows["Session"][i]
            b == rows["Session"][j]
        IN i # j => <<a.allocation, a.number>> # <<b.allocation, b.number>>
    /\ \A i, j \in Ids("Scan") :
        LET a == rows["Scan"][i]
            b == rows["Scan"][j]
        IN i # j => <<a.session, a.number>> # <<b.session, b.number>>
    /\ \A i, j \in Ids("GuppiFile") :
        LET a == rows["GuppiFile"][i]
            b == rows["GuppiFile"][j]
        IN i # j => <<a.scan, a.number>> # <<b.scan, b.number>>

\* C4: every call of connect_db, first or repeated and with rows inserted in
\* between, succeeds, leaves all eight tables in existence and leaves every
\* row as it was.
C4_ConnectIdempotent ==
    [][proxy' # proxy =>
        /\ last'.op = "connect_db"
        /\ last'.status = "ok"
        /\ AllTables \subseteq tables'
        /\ rows' = rows]_vars

\* a repeated connect_db on a store that holds rows
C4_Witness ==
    /\ last.op = "connect_db"
    /\ last.status = "ok"
    /\ proxy >= 2
    /\ TotalRows(rows) >= 2
    /\ tables = AllTables

Contains(big, small) ==
    \A k \in DOMAIN small : k \in DOMAIN big /\ big[k] = small[k]

\* C5: for a well-formed file the full-data record contains every key of the
\* header-only record with the same value, and the header-only record every
\* key of the filename-only record.
C5_NestedDepths ==
    /\ (data_out.status = "ok" /\ header_out.status = "ok")
        => Contains(data_out.info, header_out.info)
    /\ (header_out.status = "ok" /\ filename_out.status = "ok")
        => Contains(header_out.info, filename_out.info)

\* C6: header-only extraction never touches the per-sample data table.
C6_HeaderOnlyReads ==
    header_out.status # "none" => "hdu1.data" \notin header_out.reads

\* C7: reading ScanSet.session reports a data-consistency error when the
\* scans of the set belong to two or more sessions, and returns the shared
\* session when they belong to one.
C7_SessionChecked ==
    last.op = "ScanSet.session" =>
        LET sessions == {rows["Scan"][i].session : i \in ScanSet_scans(last.arg)}
        IN
        /\ Cardinality(sessions) >= 2 => last.status = "DataConsistencyError"
        /\ Cardinality(sessions) = 1
            => last.status = "ok" /\ last.value \in sessions

\* the number written with three digits, the way the claim words the name
ThreeDigits(n) ==
    <<Digits[(n \div 100) + 1], Digits[((n \div 10) % 10) + 1],
      Digits[(n % 10) + 1]>>

\* a name taken apart at the "GBT" prefix and the first "-"
NameTerm(name) == Slice(name, 4, FirstOf(name, "-") - 1)
NameNumber(name) == Slice(name, FirstOf(name, "-") + 1, Len(name))

\* C8: for a term of two digits and a letter and a number in 0..999 the name
\* is "GBT" + term + "-" + the number zero-padded to width 3, and taking the
\* name apart at the prefix and the separator gives back term and number
\* (so two different pairs never share a name).
C8_NameRoundTrip ==
    (alloc_name # <<>> /\ alloc.number \in 0..999) =>
        /\ alloc_name = <<"G", "B", "T">> \o alloc.term \o <<"-">>
                            \o ThreeDigits(alloc.number)
        /\ LitAt(alloc_name, 1, <<"G", "B", "T">>)
        /\ NameTerm(alloc_name) = alloc.term
        /\ AllDigits(NameNumber(alloc_name))
        /\ Len(NameNumber(alloc_name)) = 3
        /\ DecimalValue(NameNumber(alloc_name)) = alloc.number

\* term "10B", number 36 named "GBT10B-036"
C8_Witness ==
    /\ alloc = [term |-> <<"1", "0", "B">>, number |-> 36]
    /\ alloc_name = <<"G", "B", "T", "1", "0", "B", "-", "0", "3", "6">>

\* C9: for a non-empty zenith column full-data extraction returns
\* el_min = 90 - max(zenith) and el_max = 90 - min(zenith), so zenith bounds
\* [10, 80] give el_min = 10 and el_max = 80, and el_min <= el_max.
C9_ElevationComplement ==
    (data_out.status # "none" /\ Len(file.data) > 0) =>
        /\ data_out.status = "ok"
        /\ LET zen == {file.data[i].TEL_ZEN : i \in 1..Len(file.data)}
               info == data_out.info
           IN
           /\ \E lo, hi \in zen :
                /\ \A z \in zen : lo <= z /\ z <= hi
                /\ info["el_min"] = 90 - hi
                /\ info["el_max"] = 90 - lo
                /\ (lo = 10 /\ hi = 80)
                    => (info["el_min"] = 10 /\ info["el_max"] = 80)
           /\ info["el_min"] <= info["el_max"]
           /\ "zen_min" \notin DOMAIN info
           /\ "zen_max" \notin DOMAIN info

\* zenith bounds [10, 80] extracted as elevation bounds [10, 80]
C9_Witness ==
    /\ data_out.status = "ok"
    /\ {file.data[i].TEL_ZEN : i \in 1..Len(file.data)} = {10, 80}
    /\ data_out.info["el_min"] = 10
    /\ data_out.info["el_max"] = 80

\* whether timedelta td is q * 100 + r seconds (r in 0..99), computed
\* without leaving TLC's integers
IsSeconds(td, q, r) ==
    /\ td.days * (SecondsPerDay \div 100) + td.seconds \div 100 = q
    /\ td.seconds % 100 = r

\* C10: _mjd_to_unix maps every whole-day MJD d to (d - 40587) * 86400
\* seconds: MJD 0 to -3506716800 and MJD 58849 to 1577836800.
C10_MjdToUnix ==
    unix_out.status = "ok" =>
        /\ unix_out.days = mjd - 40587
        /\ unix_out.seconds = 0
        /\ mjd = 0 => IsSeconds(unix_out, -35067168, 0)
        /\ mjd = 58849 => IsSeconds(unix_out, 15778368, 0)
        /\ mjd = 58849 => total_seconds(unix_out) = 1577836800

\* MJD 0 converted
C10_Witness ==
    /\ mjd = 0
    /\ unix_out.status = "ok"
    /\ unix_out.days < 0

====
